---- MODULE Spec2Model ----
(***************************************************************************)
(* A model of geopolitics_simple.py: the ingestion pass (scrape_all,       *)
(* scrape_source, store_items), the article and source tables, the         *)
(* full-text enrichment handler, the administrative handlers and the       *)
(* listing handlers.                                                       *)
(*                                                                         *)
(* Text is a sequence of one-character strings, so that strip, lower,      *)
(* slicing and substring search are computed as Python computes them.      *)
(* None and "" are both the empty sequence: the code only ever tests such  *)
(* values for truthiness (`or ""`, `if not url`, `if summary`).  An        *)
(* optional timestamp is <<>> (None) or <<t>>.                             *)
(***************************************************************************)
EXTENDS Integers, Sequences, FiniteSets, TLC

\* ------------------------------------------------------------------ text

Whitespace == {" ", "\t", "\n", "\r"}

UpperCase ==
  <<"A","B","C","D","E","F","G","H","I","J","K","L","M",
    "N","O","P","Q","R","S","T","U","V","W","X","Y","Z">>

LowerCase ==
  <<"a","b","c","d","e","f","g","h","i","j","k","l","m",
    "n","o","p","q","r","s","t","u","v","w","x","y","z">>

SetMax(S) == CHOOSE x \in S : \A y \in S : y <= x

\* the lowercase letter of each uppercase letter
LowerOf ==
  [c \in {UpperCase[i] : i \in DOMAIN UpperCase} |->
     LowerCase[CHOOSE i \in DOMAIN UpperCase : UpperCase[i] = c]]

\* str.lower() on one character
lower_char(c) == IF c \in DOMAIN LowerOf THEN LowerOf[c] ELSE c

\* str.lower()
lower(s) == [i \in 1..Len(s) |-> lower_char(s[i])]

\* str.strip(): leading and trailing whitespace removed
strip(s) ==
  IF \A i \in 1..Len(s) : s[i] \in Whitespace THEN <<>>
  ELSE LET first == CHOOSE i \in 1..Len(s) :
                      s[i] \notin Whitespace /\ \A j \in 1..(i - 1) : s[j] \in Whitespace
           last == CHOOSE i \in 1..Len(s) :
                     s[i] \notin Whitespace /\ \A j \in (i + 1)..Len(s) : s[j] \in Whitespace
       IN  SubSeq(s, first, last)

\* the slice s[:n]
slice(s, n) == IF Len(s) <= n THEN s ELSE SubSeq(s, 1, n)

\* the substring test `k in s`
contains(s, k) ==
  \E i \in 0..(Len(s) - Len(k)) : \A j \in 1..Len(k) : s[i + j] = k[j]

\* n copies of the character c
repeat(c, n) == [i \in 1..n |-> c]

\* ------------------------------------------------------- configuration

\* the default of the KEYWORDS setting, each entry stripped and lowercased
KEYWORDS ==
  << <<"r","u","s","s","i","a">>,
     <<"u","k","r","a","i","n","e">>,
     <<"c","h","i","n","a">>,
     <<"t","a","i","w","a","n">>,
     <<"n","a","t","o">>,
     <<"i","s","r","a","e","l">>,
     <<"p","a","l","e","s","t","i","n","e">>,
     <<"i","r","a","n">>,
     <<"a","f","g","h","a","n","i","s","t","a","n">>,
     <<"i","n","d","i","a">>,
     <<"m","o","d","i">>,
     <<"u","s">>,
     <<"u","n","i","t","e","d"," ","s","t","a","t","e","s">>,
     <<"s","y","r","i","a","n">>,
     <<"k","o","r","e","a">>,
     <<"v","l","a","d","i","m","i","r">>,
     <<"z","e","l","e","n","s","k","y">> >>

\* the literal of the relevance test's source-name exemption
EXEMPT_NAME == <<"a","l"," ","j","a","z","e","e","r","a">>

\* column widths of Article, applied by store_items as slices
SOURCE_MAX == 255

TITLE_MAX == 1024

URL_MAX == 2048

SUMMARY_MAX == 4000

\* entries of a feed that parse_rss reads, links extract_links_with_keywords returns
RSS_CAP == 60

HTML_CAP == 80

\* paragraphs article_fetch_full asks fetch_full_text_and_summary for
MAX_PARAGRAPHS == 4

\* the ADMIN_TOKEN setting of the modelled deployment (admin actions enabled)
ADMIN_TOKEN == "secret"

\* `any(k in low for k in KEYWORDS)`
any_keyword(low) == \E n \in DOMAIN KEYWORDS : contains(low, KEYWORDS[n])

\* ---------------------------------------------------------------- fetchers

\* the elements of f at the indices I, in index order
pick(f, I) ==
  LET at(k) == CHOOSE i \in I : Cardinality({j \in I : j < i}) = k - 1
  IN  [k \in 1..Cardinality(I) |-> f[at(k)]]

\* parse_rss: the first 60 entries, each as a candidate item
parse_rss(doc) ==
  LET es == slice(doc.entries, RSS_CAP)
  IN  [i \in 1..Len(es) |->
         [title |-> es[i].title, url |-> es[i].url,
          summary |-> es[i].summary, published |-> es[i].published]]

\* urljoin for the hrefs of the model: an absolute href, or none (the page itself)
urljoin(base_url, href) == IF href = <<>> THEN base_url ELSE href

\* extract_links_with_keywords: the links whose text or address names a keyword,
\* the first of each address, at most 80; the page's anchors are doc.entries
extract_links_with_keywords(doc, base_url) ==
  LET as == doc.entries
      text(i) == strip(as[i].title)
      href(i) == urljoin(base_url, as[i].url)
      hit == {i \in DOMAIN as : any_keyword(lower(text(i) \o <<" ">> \o href(i)))}
      first == {i \in hit : \A j \in hit : j < i => href(j) # href(i)}
      found == pick([i \in DOMAIN as |->
                       [title |-> IF text(i) # <<>> THEN text(i) ELSE href(i),
                        url |-> href(i), summary |-> <<>>, published |-> <<>>]],
                    first)
  IN  slice(found, HTML_CAP)

\* scrape_source: the fetcher of the source's type; any exception gives no items
scrape_source(source, doc) ==
  IF ~doc.ok THEN <<>>
  ELSE IF source.type = "rss" THEN parse_rss(doc)
  ELSE extract_links_with_keywords(doc, source.url)

\* ------------------------------------------------------------- store_items

\* `if not url or not title: continue`, title stripped
is_valid(it) == strip(it.title) # <<>> /\ it.url # <<>>

\* is_exempt done wrong: only the source named exactly "al jazeera" is exempt
is_exempt_exact(source_name) == lower(source_name) = EXEMPT_NAME

\* `"al jazeera" in source_name.lower()`
is_exempt(source_name) == contains(lower(source_name), EXEMPT_NAME)

\* the relevance test of store_items
is_relevant(it, source_name) ==
  \/ any_keyword(lower(strip(it.title) \o <<" ">> \o it.url))
  \/ is_exempt(source_name)

\* session.query(Article).filter(Article.url == url).first()
exists(rows, url) == \E i \in DOMAIN rows : rows[i].url = url

\* uq_url done wrong: the table has no unique constraint
uq_url_absent(rows, url) == TRUE

\* the unique constraint on Article.url: may a row with this url be inserted?
uq_url(rows, url) == \A i \in DOMAIN rows : rows[i].url # url

\* session_commit done wrong: a row with the url is replaced by the new one
\* (session.merge in place of session.add)
session_merge(rows, art) ==
  IF uq_url(rows, art.url)
  THEN [ok |-> TRUE, rows |-> Append(rows, art)]
  ELSE [ok |-> TRUE,
        rows |-> [i \in DOMAIN rows |->
                    IF rows[i].url = art.url
                    THEN [id |-> rows[i].id, source |-> art.source, title |-> art.title,
                          url |-> art.url, summary |-> art.summary,
                          published |-> art.published, fetched_at |-> art.fetched_at]
                    ELSE rows[i]]]

\* session.add(art); session.commit(): the row is inserted, or the constraint
\* raises IntegrityError and the table is as it was
session_commit(rows, art) ==
  IF uq_url(rows, art.url)
  THEN [ok |-> TRUE, rows |-> Append(rows, art)]
  ELSE [ok |-> FALSE, rows |-> rows]

\* the Article that store_items builds; id and fetched_at are set by the insert
Article(it, source_name, id, at) ==
  [id |-> id,
   source |-> slice(source_name, SOURCE_MAX),
   title |-> slice(strip(it.title), TITLE_MAX),
   url |-> slice(it.url, URL_MAX),
   summary |-> slice(it.summary, SUMMARY_MAX),
   published |-> it.published,
   fetched_at |-> at]

\* ------------------------------------------------------------------ state

\* the threads that run scrape_all: the scheduler's job, the start-up call of
\* __main__, and a request handler serving /scrape_now
Procs == {"scheduler", "main", "web"}

\* passes started in all (the start-up call runs once)
MaxPasses == 3

\* the last instant at which an enrichment may write
MaxClock == 4

VARIABLES
  registry,   \* the sources table: a set of Source rows
  articles,   \* the articles table: rows in id order (a row is never deleted)
  web,        \* what each address serves: [ok, entries]
  pass,       \* per thread: the locals of scrape_all and store_items, and where it is
  returned,   \* per thread: the totals its completed passes returned, in order
  committer,  \* history: per article id, the <<thread, run>> whose commit inserted it
  enrich,     \* the request article_fetch_full is serving
  listing,    \* the rows the last listing handler returned
  now         \* datetime.utcnow() at the next write; it advances with every write

vars == <<registry, articles, web, pass, returned, committer, enrich, listing, now>>

\* a thread that is not in scrape_all, having completed `run` passes
idle_pass(run) ==
  [pc |-> "idle", run |-> run, sources |-> <<>>, si |-> 0, items |-> <<>>, ii |-> 0,
   added |-> 0, total |-> 0, caught |-> 0, last |-> "none", scraped |-> <<>>]

\* session.query(Source).filter(Source.enabled == True).all(): detached copies of
\* the enabled rows, in rowid order (a table scan)
enabled_sources(rows) ==
  LET on == {r \in rows : r.enabled}
      ids == {r.id : r \in on}
      row(i) == CHOOSE r \in on : r.id = i
      at(k) == CHOOSE i \in ids : Cardinality({j \in ids : j < i}) = k - 1
  IN  [k \in 1..Cardinality(ids) |-> row(at(k))]

\* scrape_all's loop moves to the next source, or to its return
next_source(st) ==
  [st EXCEPT !.si = @ + 1, !.items = <<>>, !.ii = 0, !.added = 0,
             !.total = st.total + st.added,
             !.pc = IF st.si + 1 > Len(st.sources) THEN "return" ELSE "scrape"]

\* store_items' loop moves to the next item, or returns added to scrape_all
next_item(st) ==
  IF st.ii + 1 > Len(st.items)
  THEN next_source(st)
  ELSE [st EXCEPT !.ii = @ + 1, !.pc = "store"]

\* item_except done wrong: the exception leaves store_items and scrape_all
item_raise(st) == [st EXCEPT !.pc = "aborted", !.caught = @ + 1, !.last = "error"]

\* item_skip done wrong: the item is counted before the `continue`
item_skip_counted(st, why) == next_item([st EXCEPT !.added = @ + 1, !.last = why])

\* item_except done wrong: the item was counted before its commit failed
item_except_counted(st) ==
  next_item([st EXCEPT !.added = @ + 1, !.caught = @ + 1, !.last = "error"])

\* `except Exception: session.rollback()`, then the next item
item_except(st) == next_item([st EXCEPT !.caught = @ + 1, !.last = "error"])

\* `session.commit(); added += 1`, then the next item
item_added(st) == next_item([st EXCEPT !.added = @ + 1, !.last = "added"])

\* a `continue` of store_items' loop, for the reason given
item_skip(st, why) == next_item([st EXCEPT !.last = why])

\* scrape_source's `except Exception: ... return []`
source_except(st) == next_source([st EXCEPT !.caught = @ + 1])

\* current_source done wrong: the loop reads the table's row of that id, when
\* there is one, instead of the snapshot's copy
current_source_live(st) ==
  LET id == st.sources[st.si].id
  IN  IF \E r \in registry : r.id = id
      THEN CHOOSE r \in registry : r.id = id
      ELSE st.sources[st.si]

\* the source scrape_all's loop is at: the snapshot's copy
current_source(st) == st.sources[st.si]

\* ------------------------------------------------------------- scrape_all

\* scrape_all, to the loop: the snapshot of the enabled sources
scrape_all_begin(p) ==
  /\ pass[p].pc = "idle"
  /\ pass["scheduler"].run + pass["main"].run + pass["web"].run < MaxPasses
  /\ p = "main" => pass[p].run = 0
  /\ p = "web" => pass["main"].pc = "idle" /\ pass["main"].run = 1
  /\ LET sources == enabled_sources(registry)
     IN  pass' = [pass EXCEPT ![p] =
           [idle_pass(pass[p].run + 1) EXCEPT
              !.sources = sources,
              !.si = 1,
              !.pc = IF sources = <<>> THEN "return" ELSE "scrape"]]
  /\ UNCHANGED <<registry, articles, web, returned, committer, enrich, listing, now>>

\* scrape_source_obj(src), and store_items up to its loop
scrape(p, doc) ==
  /\ pass[p].pc = "scrape"
  /\ LET st == pass[p]
         src == current_source(st)
         items == scrape_source(src, doc)
         seen == [st EXCEPT !.scraped =
                    Append(@, [name |-> src.name, type |-> src.type, url |-> src.url])]
     IN  pass' = [pass EXCEPT ![p] =
           IF ~doc.ok THEN source_except(seen)
           ELSE IF items = <<>> THEN next_source(seen)
           ELSE [seen EXCEPT !.items = items, !.ii = 1, !.added = 0, !.pc = "store"]]
  /\ UNCHANGED <<registry, articles, web, returned, committer, enrich, listing, now>>

\* the source answers with what it serves
scrape_source_obj(p) == scrape(p, web[current_source(pass[p]).url])

\* the request times out, or the document does not parse
scrape_source_fails(p) == scrape(p, [ok |-> FALSE, entries |-> <<>>])

\* store_items, one item, to the lookup of its url
store_items_lookup(p) ==
  /\ pass[p].pc = "store"
  /\ LET st == pass[p]
         it == st.items[st.ii]
         source_name == current_source(st).name
     IN  pass' = [pass EXCEPT ![p] =
           IF ~is_valid(it) THEN item_skip(st, "invalid")
           ELSE IF ~is_relevant(it, source_name) THEN item_skip(st, "irrelevant")
           ELSE IF exists(articles, it.url) THEN item_skip(st, "exists")
           ELSE [st EXCEPT !.pc = "commit"]]
  /\ UNCHANGED <<registry, articles, web, returned, committer, enrich, listing, now>>

\* store_items, the same item: session.add(art); session.commit()
store_items_commit(p) ==
  /\ pass[p].pc = "commit"
  /\ LET st == pass[p]
         it == st.items[st.ii]
         art == Article(it, current_source(st).name, Len(articles) + 1, now)
         done == session_commit(articles, art)
     IN  IF done.ok
         THEN /\ articles' = done.rows
              /\ committer' = Append(committer, <<p, st.run>>)
              /\ now' = now + 1
              /\ pass' = [pass EXCEPT ![p] = item_added(st)]
         ELSE /\ pass' = [pass EXCEPT ![p] = item_except(st)]
              /\ UNCHANGED <<articles, committer, now>>
  /\ UNCHANGED <<registry, web, returned, enrich, listing>>

\* scrape_all's `return total`
scrape_all_end(p) ==
  /\ pass[p].pc = "return"
  /\ returned' = [returned EXCEPT ![p] = Append(@, pass[p].total)]
  /\ pass' = [pass EXCEPT ![p] = idle_pass(pass[p].run)]
  /\ UNCHANGED <<registry, articles, web, committer, enrich, listing, now>>

\* ------------------------------------------------------------- enrichment

\* the first n non-empty paragraph texts, each stripped (get_text(strip=True))
first_paragraphs(ps, n) ==
  slice(pick([i \in DOMAIN ps |-> strip(ps[i])],
             {i \in DOMAIN ps : strip(ps[i]) # <<>>}), n)

\* "\n\n".join(paras)
RECURSIVE join(_)
join(paras) ==
  IF paras = <<>> THEN <<>>
  ELSE IF Len(paras) = 1 THEN paras[1]
  ELSE paras[1] \o <<"\n", "\n">> \o join(Tail(paras))

\* fetch_full_text_and_summary: the paragraphs of <article>, else those of <main>
\* or the document, else the meta description; None when nothing is found or the
\* fetch fails
fetch_full_text_and_summary(page, max_paragraphs) ==
  IF ~page.ok THEN <<>>
  ELSE LET in_article == first_paragraphs(page.article, max_paragraphs)
           paras == IF in_article # <<>> THEN in_article
                    ELSE first_paragraphs(page.main, max_paragraphs)
           summary == strip(join(paras))
       IN  IF summary # <<>> THEN summary ELSE strip(page.meta)

\* replace_summary done wrong: the row is written whatever was extracted
replace_summary_always(rows, id, summary, at) ==
  [rows EXCEPT ![id].summary = summary, ![id].fetched_at = at]

\* `if summary: art.summary = summary; art.fetched_at = utcnow(); commit`
replace_summary(rows, id, summary, at) ==
  IF summary # <<>>
  THEN [rows EXCEPT ![id].summary = summary, ![id].fetched_at = at]
  ELSE rows

no_request == [pc |-> "idle", id |-> 0, found |-> FALSE, summary |-> <<>>]

\* article_fetch_full, to the end of the fetch: the row is read, its page fetched
article_fetch_full_begin(article_id, page) ==
  /\ enrich.pc = "idle"
  /\ now < MaxClock
  /\ LET found == article_id \in DOMAIN articles
     IN  enrich' = [pc |-> "fetched", id |-> article_id, found |-> found,
                    summary |-> IF found
                                THEN fetch_full_text_and_summary(page, MAX_PARAGRAPHS)
                                ELSE <<>>]
  /\ UNCHANGED <<registry, articles, web, pass, returned, committer, listing, now>>

\* article_fetch_full, the rest: the write, or the 404's rollback
article_fetch_full_end ==
  /\ enrich.pc = "fetched"
  /\ articles' = IF enrich.found
                 THEN replace_summary(articles, enrich.id, enrich.summary, now)
                 ELSE articles
  /\ now' = IF articles' # articles THEN now + 1 ELSE now
  /\ enrich' = no_request
  /\ UNCHANGED <<registry, web, pass, returned, committer, listing>>

\* ------------------------------------------------------------------ admin

check_admin_token(req_token) ==
  ADMIN_TOKEN # "" /\ req_token # "" /\ req_token = ADMIN_TOKEN

\* the rowid SQLite gives an inserted row: one more than the largest in the table
next_id(rows) == IF rows = {} THEN 1 ELSE SetMax({r.id : r \in rows}) + 1

\* source ids the model lets the table reach
MaxSourceId == 3

admin_add(token, name, stype, url) ==
  /\ next_id(registry) <= MaxSourceId
  /\ registry' =
       IF /\ check_admin_token(token)
          /\ name # <<>> /\ url # <<>>
          /\ \A r \in registry : r.url # url
       THEN registry \cup {[id |-> next_id(registry), name |-> name, type |-> stype,
                            url |-> url, enabled |-> TRUE]}
       ELSE registry
  /\ UNCHANGED <<articles, web, pass, returned, committer, enrich, listing, now>>

admin_toggle(token, sid) ==
  /\ registry' =
       IF check_admin_token(token)
       THEN {IF r.id = sid THEN [r EXCEPT !.enabled = ~r.enabled] ELSE r : r \in registry}
       ELSE registry
  /\ UNCHANGED <<articles, web, pass, returned, committer, enrich, listing, now>>

admin_delete(token, sid) ==
  /\ registry' =
       IF check_admin_token(token)
       THEN {r \in registry : r.id # sid}
       ELSE registry
  /\ UNCHANGED <<articles, web, pass, returned, committer, enrich, listing, now>>

\* --------------------------------------------------------------- listing

\* rows the index page asks for, and rows the API asks for
INDEX_LIMIT == 300

API_LIMIT == 500

\* a sorts before b under
\* ORDER BY published DESC NULLS LAST, fetched_at DESC
sorts_before(a, b) ==
  \/ a.published # <<>> /\ b.published = <<>>
  \/ a.published # <<>> /\ b.published # <<>> /\ a.published[1] > b.published[1]
  \/ a.published = b.published /\ a.fetched_at > b.fetched_at

\* the orders in which the query may return the table: rows that agree on both
\* keys come in any order
order_by(rows) ==
  LET n == Len(rows)
      perms == {f \in [1..n -> 1..n] : \A i, j \in 1..n : i # j => f[i] # f[j]}
  IN  {[k \in 1..n |-> rows[f[k]]] :
         f \in {g \in perms :
                  \A i, j \in 1..n : i < j => ~sorts_before(rows[g[j]], rows[g[i]])}}

\* `q in (r.title or "").lower() or q in (r.summary or "").lower()`
matches(r, q) == contains(lower(r.title), q) \/ contains(lower(r.summary), q)

RECURSIVE keep_matches(_, _)
keep_matches(rows, q) ==
  IF rows = <<>> THEN <<>>
  ELSE (IF matches(rows[1], q) THEN <<rows[1]>> ELSE <<>>) \o keep_matches(Tail(rows), q)

\* listed done wrong: the rows are filtered before the limit is applied
listed_filter_first(sorted, limit, q) ==
  slice(IF q # <<>> THEN keep_matches(sorted, q) ELSE sorted, limit)

\* .limit(n).all(), then `if q: rows = [r for r in rows if ...]`
listed(sorted, limit, q) ==
  LET rows == slice(sorted, limit)
  IN  IF q # <<>> THEN keep_matches(rows, q) ELSE rows

no_listing == [handler |-> "none", limit |-> 0, q |-> <<>>, rows |-> <<>>]

\* index: the page of recent articles, searched when q is given
index(limit, query) ==
  /\ \E sorted \in order_by(articles) :
       listing' = [handler |-> "index", limit |-> limit, q |-> lower(strip(query)),
                   rows |-> listed(sorted, limit, lower(strip(query)))]
  /\ UNCHANGED <<registry, articles, web, pass, returned, committer, enrich, now>>

\* api_articles: the recent articles as JSON
api_articles(limit) ==
  /\ \E sorted \in order_by(articles) :
       listing' = [handler |-> "api_articles", limit |-> limit, q |-> <<>>,
                   rows |-> listed(sorted, limit, <<>>)]
  /\ UNCHANGED <<registry, articles, web, pass, returned, committer, enrich, now>>

\* ------------------------------------------------------------ the system

\* names, addresses and texts of the model's world
AlJazeera == <<"A","l"," ","J","a","z","e","e","r","a">>

AlJazeeraEnglish == <<"A","l"," ","J","a","z","e","e","r","a"," ","E","n","g","l","i","s","h">>

BBCWorld == <<"B","B","C"," ","W","o","r","l","d">>

ReutersWorld == <<"R","e","u","t","e","r","s"," ","W","o","r","l","d">>

aj_url == <<"a","j",".","t","e","s","t","/","r","s","s">>

bbc_url == <<"b","b","c",".","t","e","s","t","/","w","o","r","l","d">>

reuters_url == <<"r",".","t","e","s","t","/","r","s","s">>

url_a == <<"x",".","t","e","s","t","/","a">>

url_b == <<"x",".","t","e","s","t","/","b">>

NatoTalks == <<"N","a","t","o"," ","t","a","l","k","s">>

NATO == <<"N","A","T","O">>

Bakery == <<"B","a","k","e","r","y">>

Text1 == <<"o","n","e">>

Text2 == <<"t","w","o">>

entry(title, url, summary, published) ==
  [title |-> title, url |-> url, summary |-> summary, published |-> published]

document(entries) == [ok |-> TRUE, entries |-> entries]

\* the sources table of the modelled deployment: two of the default sources
Sources0 ==
  {[id |-> 1, name |-> AlJazeera, type |-> "rss", url |-> aj_url, enabled |-> TRUE],
   [id |-> 2, name |-> BBCWorld, type |-> "html", url |-> bbc_url, enabled |-> TRUE]}

\* what the three addresses may serve: the same article under two titles, and
\* an article no keyword matches
Webs ==
  {[u \in {aj_url, bbc_url, reuters_url} |->
      IF u = aj_url THEN document(<<entry(NatoTalks, url_a, Text1, <<1>>)>> \o tail)
      ELSE IF u = bbc_url THEN document(<<entry(NATO, url_a, Text2, <<>>)>>)
      ELSE document(<<entry(Bakery, url_b, <<>>, <<2>>)>>)]
   : tail \in {<<>>, <<entry(Bakery, url_b, <<>>, <<2>>)>>}}

\* pages an article's address may serve to the enricher
Pages ==
  {[ok |-> FALSE, article |-> <<>>, main |-> <<>>, meta |-> <<>>],
   [ok |-> TRUE, article |-> << <<" ">>, Text2 >>, main |-> <<Text1>>, meta |-> Text1],
   [ok |-> TRUE, article |-> <<>>, main |-> << <<"\n">> >>, meta |-> <<" ">>]}

Init ==
  /\ registry = Sources0
  /\ articles = <<>>
  /\ web \in Webs
  /\ pass = [p \in Procs |-> idle_pass(0)]
  /\ returned = [p \in Procs |-> <<>>]
  /\ committer = <<>>
  /\ enrich = no_request
  /\ listing = no_listing
  /\ now = 1

Next ==
  \/ \E p \in Procs :
       \/ scrape_all_begin(p)
       \/ scrape_source_obj(p)
       \/ scrape_source_fails(p)
       \/ store_items_lookup(p)
       \/ store_items_commit(p)
       \/ scrape_all_end(p)
  \/ \E id \in 1..2, page \in Pages : article_fetch_full_begin(id, page)
  \/ article_fetch_full_end

Spec == Init /\ [][Next]_vars

\* the ingestion pass beside the administrative handlers
NextAdmin ==
  \/ \E p \in {"scheduler"} :
       \/ scrape_all_begin(p)
       \/ scrape_source_obj(p)
       \/ store_items_lookup(p)
       \/ store_items_commit(p)
       \/ scrape_all_end(p)
  \/ \E token \in {ADMIN_TOKEN, ""} :
       \/ admin_add(token, ReutersWorld, "rss", reuters_url)
       \/ \E sid \in 1..MaxSourceId : admin_toggle(token, sid) \/ admin_delete(token, sid)

SpecAdmin == Init /\ [][NextAdmin]_vars

\* ---------------------------------------------- the pass, run by itself

\* entries of a document of the sequential model
MaxEntries == 2

\* a url of exactly the column's width, and two longer ones that share it as prefix
url_wide == <<"x", "/">> \o repeat("z", URL_MAX - 2)

url_long_1 == url_wide \o <<"1">>

url_long_2 == url_wide \o <<"2">>

\* texts longer than their columns
title_long == NatoTalks \o repeat("!", TITLE_MAX)

summary_long == repeat("s", SUMMARY_MAX + 1)

name_long == AlJazeera \o repeat("+", SOURCE_MAX)

United == <<"U","n","i","t","e","d">>

states_url == <<"s","t","a","t","e","s",".","t","e","s","t","/","x">>

\* entries of ordinary width: an article under two titles, an article no keyword
\* matches, blank and missing titles and urls, and a keyword that only the
\* joined title and url spell
Entries ==
  {entry(NatoTalks, url_a, Text1, <<1>>),
   entry(NATO, url_a, Text2, <<>>),
   entry(Bakery, url_b, <<>>, <<2>>),
   entry(NatoTalks, <<" ">>, Text1, <<>>),
   entry(<<" ", "\t">>, url_a, Text1, <<1>>),
   entry(NATO, <<>>, <<>>, <<>>),
   entry(United, states_url, Text1, <<>>)}

\* entries with texts wider than their columns
WideEntries ==
  {entry(title_long, url_long_1, summary_long, <<1>>),
   entry(NATO, url_long_2, Text2, <<2>>),
   entry(NatoTalks, url_wide, <<>>, <<>>)}

\* what an address may serve: an error, or up to MaxEntries entries, all of
\* ordinary width, or all wide and each a different one
Documents ==
  {[ok |-> FALSE, entries |-> <<>>]}
    \cup {document(es) : es \in UNION {[1..n -> Entries] : n \in 0..MaxEntries}}
    \cup {document(es) :
            es \in UNION {{f \in [1..n -> WideEntries] :
                             \A i, j \in 1..n : i # j => f[i] # f[j]} :
                          n \in 1..MaxEntries}}

\* the sources tables of the sequential model, as <<name, type, whether Al
\* Jazeera's feed follows>>
Tables ==
  {<<BBCWorld, "rss", FALSE>>, <<BBCWorld, "html", FALSE>>,
   <<AlJazeeraEnglish, "rss", FALSE>>, <<name_long, "rss", FALSE>>,
   <<BBCWorld, "rss", TRUE>>}

\* one source, alone or followed by Al Jazeera's feed, and what its address serves
InitSeq ==
  /\ \E table \in Tables, doc \in Documents :
       LET name == table[1]
           type == table[2]
           two == table[3]
       IN
       /\ registry =
            {[id |-> 1, name |-> name, type |-> type, url |-> bbc_url, enabled |-> TRUE]}
              \cup (IF two
                    THEN {[id |-> 2, name |-> AlJazeera, type |-> "rss", url |-> aj_url,
                           enabled |-> TRUE]}
                    ELSE {})
       /\ web = [u \in {aj_url, bbc_url, reuters_url} |->
                   IF u = bbc_url THEN doc
                   ELSE IF u = aj_url
                   THEN document(<<entry(Bakery, url_b, <<>>, <<2>>),
                                   entry(NATO, url_a, Text2, <<>>)>>)
                   ELSE document(<<>>)]
  /\ articles = <<>>
  /\ pass = [p \in Procs |-> idle_pass(0)]
  /\ returned = [p \in Procs |-> <<>>]
  /\ committer = <<>>
  /\ enrich = no_request
  /\ listing = no_listing
  /\ now = 1

\* the scheduler's passes, one after the other, nothing else running and every
\* address serving the same document each time
NextSeq ==
  \/ scrape_all_begin("scheduler")
  \/ scrape_source_obj("scheduler")
  \/ store_items_lookup("scheduler")
  \/ store_items_commit("scheduler")
  \/ scrape_all_end("scheduler")

SpecSeq == InitSeq /\ [][NextSeq]_vars

\* ------------------------------------------------- the listing handlers

\* rows of the table of the listing model
MaxRows == 2

\* the handlers' limits are 300 and 500; the model also runs them with limits up
\* to MaxLimit, so that a table of MaxRows rows overflows the window
MaxLimit == 1

url_c == <<"x",".","t","e","s","t","/","c">>

url_d == <<"x",".","t","e","s","t","/","d">>

RowUrls == <<url_a, url_b, url_c, url_d, states_url>>

\* a table of up to MaxRows rows: any published and fetched_at, and a title or
\* a summary that names NATO
InitList ==
  /\ \E n \in 0..MaxRows :
       \E published \in [1..n -> {<<>>, <<1>>, <<2>>}],
          fetched_at \in [1..n -> {1, 2}],
          text \in [1..n -> {<<NatoTalks, Text1>>, <<Bakery, NATO>>}] :
         articles = [i \in 1..n |->
                       [id |-> i, source |-> BBCWorld, title |-> text[i][1],
                        url |-> RowUrls[i], summary |-> text[i][2],
                        published |-> published[i], fetched_at |-> fetched_at[i]]]
  /\ registry = Sources0
  /\ web = [u \in {aj_url, bbc_url, reuters_url} |-> document(<<>>)]
  /\ pass = [p \in Procs |-> idle_pass(0)]
  /\ returned = [p \in Procs |-> <<>>]
  /\ committer = [i \in DOMAIN articles |-> <<"scheduler", 1>>]
  /\ enrich = no_request
  /\ listing = no_listing
  /\ now = 3

NextList ==
  \/ \E limit \in 1..MaxLimit \cup {INDEX_LIMIT},
        query \in {<<>>, <<" ">>, <<" ", "N", "a", "T", "o">>, <<"O", "n", "e">>} :
       index(limit, query)
  \/ \E limit \in 1..MaxLimit \cup {API_LIMIT} : api_articles(limit)

SpecList == InitList /\ [][NextList]_vars

\* ----------------------------------------------------------------- claims

RECURSIVE sum(_)
sum(counts) == IF counts = <<>> THEN 0 ELSE counts[1] + sum(Tail(counts))

\* the rows whose insert the given run of the given thread committed
committed_by(p, run) == {i \in DOMAIN committer : committer[i] = <<p, run>>}

\* a thread is inside one and the same pass before and after the step
SamePass(p) ==
  pass[p].pc # "idle" /\ pass'[p].pc # "idle" /\ pass'[p].run = pass[p].run

\* C1: in every reachable state no two rows of the articles table have the same
\* url, whatever the interleaving of the three threads' passes (each a lookup and
\* then an insert per item) and of enrichment requests.
C1_UrlUnique ==
  \A i, j \in DOMAIN articles : i # j => articles[i].url # articles[j].url

\* two passes raced on one url (a commit hit the constraint) and an enrichment
\* has rewritten a row
C1_Witness ==
  /\ \E p \in Procs : pass[p].last = "error"
  /\ \E i \in DOMAIN articles : articles[i].title = NatoTalks /\ articles[i].summary = Text2

\* C4: a failure neither aborts the pass nor undoes or uncounts anything.  A step
\* in which a pass catches an exception leaves the table and the pass's count as
\* they were and moves the pass on by exactly one position: a source whose fetch
\* raised gives way to the next source of the snapshot (or to the return), an
\* item whose commit raised gives way to the next item of the batch (or to the
\* next source).  Every step of a pass moves it forward, no pass is ever outside
\* scrape_all's code, and a pass that reaches its return has fetched every source
\* of its snapshot and returns the number of rows it committed.
C4_Step ==
  \A p \in Procs :
    /\ (SamePass(p) /\ pass'[p].caught > pass[p].caught) =>
         /\ articles' = articles
         /\ pass'[p].total + pass'[p].added = pass[p].total + pass[p].added
         /\ pass'[p].caught = pass[p].caught + 1
         /\ pass'[p].sources = pass[p].sources
         /\ IF pass[p].pc = "commit" /\ pass[p].ii < Len(pass[p].items)
            THEN /\ pass'[p].pc = "store"
                 /\ pass'[p].ii = pass[p].ii + 1
                 /\ pass'[p].si = pass[p].si
                 /\ pass'[p].items = pass[p].items
            ELSE /\ pass'[p].si = pass[p].si + 1
                 /\ pass'[p].pc =
                      IF pass[p].si < Len(pass[p].sources) THEN "scrape" ELSE "return"
    /\ (SamePass(p) /\ pass'[p] # pass[p]) =>
         \/ pass'[p].si > pass[p].si
         \/ pass'[p].si = pass[p].si /\ pass'[p].ii > pass[p].ii
         \/ /\ pass'[p].si = pass[p].si /\ pass'[p].ii = pass[p].ii
            /\ pass[p].pc = "store" /\ pass'[p].pc = "commit"
    /\ (pass[p].pc = "return" /\ pass'[p].pc = "idle") =>
         /\ returned'[p] = Append(returned[p], pass[p].total)
         /\ pass[p].total = Cardinality(committed_by(p, pass[p].run))

C4_State ==
  \A p \in Procs :
    /\ pass[p].pc \in {"idle", "scrape", "store", "commit", "return"}
    /\ pass[p].pc \in {"scrape", "store", "commit"} => pass[p].si \in DOMAIN pass[p].sources
    /\ pass[p].pc \in {"store", "commit"} => pass[p].ii \in DOMAIN pass[p].items
    /\ pass[p].pc = "return" => Len(pass[p].scraped) = Len(pass[p].sources)

C4_FailuresIsolated == [][C4_Step]_vars /\ []C4_State

\* a pass at its return that lost an item to the constraint and a source to a
\* failed fetch, and still committed and counted a row
C4_Witness ==
  \E p \in Procs :
    /\ pass[p].pc = "return"
    /\ pass[p].caught >= 2
    /\ pass[p].last = "added"
    /\ pass[p].total >= 1

\* C6: the count of a pass is the number of rows its own commits inserted, at
\* every moment of the pass and in what it returns; no row is counted twice, so
\* the counts of all passes, returned or still running, add up to the number of
\* rows of the table (which starts empty).
C6_CountIsCommitted ==
  /\ \A p \in Procs :
       /\ pass[p].pc # "idle" =>
            pass[p].total + pass[p].added = Cardinality(committed_by(p, pass[p].run))
       /\ \A k \in DOMAIN returned[p] :
            returned[p][k] = Cardinality(committed_by(p, k))
  /\ LET counted(p) == sum(returned[p]) + pass[p].total + pass[p].added
     IN  counted("scheduler") + counted("main") + counted("web") = Len(articles)

\* two overlapping passes have split the rows: one returned 1, the other lost
\* the race for that row and is about to return 1 for the other row
C6_Witness ==
  \E p, q \in Procs :
    /\ p # q
    /\ returned[p] = <<1>>
    /\ pass[q].pc = "return" /\ pass[q].caught >= 1 /\ pass[q].total = 1
    /\ Len(articles) = 2

\* C9: a row of the table changes only in the step that ends an enrichment
\* request for that very row, made when the row existed and the extracted summary
\* is non-empty; the step writes that summary and the current time to the row and
\* nothing else.  A request for a missing article, or one whose extraction gave
\* nothing (no text, or a failed fetch), ends with the table as it was.  No step
\* removes a row, and no step changes a row's url, title, source or published.
C9_Step ==
  /\ Len(articles') >= Len(articles)
  /\ \A i \in DOMAIN articles :
       articles'[i] # articles[i] =>
         /\ enrich.pc = "fetched" /\ enrich'.pc = "idle"
         /\ enrich.id = i /\ enrich.found /\ enrich.summary # <<>>
         /\ articles' = [articles EXCEPT ![i] =
                           [id |-> articles[i].id, source |-> articles[i].source,
                            title |-> articles[i].title, url |-> articles[i].url,
                            summary |-> enrich.summary,
                            published |-> articles[i].published,
                            fetched_at |-> now]]
  /\ (enrich.pc = "fetched" /\ enrich'.pc = "idle") =>
       IF enrich.found /\ enrich.summary # <<>>
       THEN /\ articles'[enrich.id].summary = enrich.summary
            /\ articles'[enrich.id].fetched_at = now
       ELSE articles' = articles

C9_OnlyEnrichmentRewrites == [][C9_Step]_vars

\* the first row, inserted with another summary, carries the extracted text and
\* a fetched_at later than the second row's insert
C9_Witness ==
  /\ Len(articles) = 2
  /\ articles[1].summary = Text2
  /\ articles[1].fetched_at > articles[2].fetched_at
  /\ articles[1].title = NatoTalks

\* C5: the pass works on the snapshot it took.  The step that starts a pass
\* gives it each source that is enabled in the table at that moment, once; no
\* later step of the pass changes that list, whatever is added to, toggled in or
\* deleted from the table meanwhile; each source the pass fetches is the next of
\* the list, under the name, type and url of the snapshot; and the pass reaches
\* its return having fetched all of them.
C5_Step ==
  \A p \in Procs :
    /\ (pass[p].pc = "idle" /\ pass'[p].pc # "idle") =>
         /\ {pass'[p].sources[k] : k \in DOMAIN pass'[p].sources}
              = {r \in registry : r.enabled}
         /\ Len(pass'[p].sources) = Cardinality({r \in registry : r.enabled})
    /\ SamePass(p) =>
         /\ pass'[p].sources = pass[p].sources
         /\ Len(pass'[p].scraped) <= Len(pass'[p].sources)
         /\ \A k \in DOMAIN pass'[p].scraped :
              pass'[p].scraped[k] =
                [name |-> pass[p].sources[k].name, type |-> pass[p].sources[k].type,
                 url |-> pass[p].sources[k].url]
         /\ pass'[p].pc = "return" => Len(pass'[p].scraped) = Len(pass[p].sources)
         /\ pass'[p].pc \in {"scrape", "store", "commit", "return"}

C5_SnapshotIsolated == [][C5_Step]_vars

\* a pass has fetched both sources of its snapshot although the table no longer
\* holds the second one as it was: its id now belongs to another source
C5_Witness ==
  \E p \in Procs :
    /\ pass[p].pc = "return"
    /\ Len(pass[p].scraped) = 2
    /\ pass[p].scraped[2].name = BBCWorld
    /\ \E r \in registry : r.id = 2 /\ r.name = ReutersWorld

\* the item store_items' loop is at, and the name of its source
item_at(p) == pass[p].items[pass[p].ii]

name_at(p) == pass[p].sources[pass[p].si].name

\* a row holds the url, as the column stores it
stored(rows, url) ==
  \E i \in DOMAIN rows : rows[i].url = (IF Len(url) <= URL_MAX THEN url ELSE SubSeq(url, 1, URL_MAX))

\* the count of the pass so far
count(p) == pass[p].total + pass[p].added

\* C2: with every address serving the same document each time, a pass that
\* runs right after a completed pass inserts nothing and returns 0: from the
\* second pass on, no step changes the table, the running count stays 0 and
\* every total returned is 0.  The documents include repeated urls and urls
\* wider than the column.
C2_Step == pass'["scheduler"].run >= 2 => articles' = articles

C2_State ==
  /\ pass["scheduler"].run >= 2 /\ pass["scheduler"].pc # "idle" => count("scheduler") = 0
  /\ \A k \in DOMAIN returned["scheduler"] : k >= 2 => returned["scheduler"][k] = 0

C2_SecondPassAddsNothing == [][C2_Step]_vars /\ []C2_State

\* the second pass is about to return, after the first inserted a row for a url
\* wider than the column, which the second pass's lookup did not find and its
\* commit could not insert
C2_Witness ==
  /\ pass["scheduler"].run = 2
  /\ pass["scheduler"].pc = "return"
  /\ pass["scheduler"].last = "error"
  /\ returned["scheduler"] = <<1>>
  /\ articles[1].url = url_wide

\* C3: an upsert never overwrites and inserts a url once.  No step of a pass
\* changes a row of the table.  While the item's url is stored, the steps that
\* process the item leave the table and the count as they are; an item that is
\* valid and relevant and whose url is not stored goes to the commit, and the
\* commit of an item whose url is not stored appends exactly the row built from
\* that item, with the current time, and counts it.
C3_Step ==
  LET st == pass["scheduler"]
  IN  /\ \A i \in DOMAIN articles : i \in DOMAIN articles' /\ articles'[i] = articles[i]
      /\ st.pc \in {"store", "commit"} =>
           IF stored(articles, item_at("scheduler").url)
           THEN articles' = articles /\ count("scheduler")' = count("scheduler")
           ELSE /\ st.pc = "store" =>
                     /\ articles' = articles
                     /\ (is_valid(item_at("scheduler"))
                           /\ is_relevant(item_at("scheduler"), name_at("scheduler")))
                         => pass'["scheduler"].pc = "commit"
                                /\ pass'["scheduler"].ii = st.ii
                \* the count is compared within the batch: the source's last item
                \* folds added into total
                /\ st.pc = "commit" =>
                     /\ Len(articles') = Len(articles) + 1
                     /\ articles'[Len(articles')].url
                          = slice(item_at("scheduler").url, URL_MAX)
                     /\ articles'[Len(articles')].summary
                          = slice(item_at("scheduler").summary, SUMMARY_MAX)
                     /\ articles'[Len(articles')].fetched_at = now
                     /\ count("scheduler")' = count("scheduler") + 1

C3_UpsertOnce == [][C3_Step]_vars

\* a document named the same url twice, with different titles and summaries:
\* the first was inserted, the second found and skipped, and the row is the first's
C3_Witness ==
  /\ pass["scheduler"].run = 1
  /\ pass["scheduler"].pc = "return"
  /\ pass["scheduler"].last = "exists"
  /\ pass["scheduler"].total = 1
  /\ web[bbc_url].entries =
       <<entry(NatoTalks, url_a, Text1, <<1>>), entry(NATO, url_a, Text2, <<>>)>>
  /\ Len(articles) = 1 /\ articles[1].title = NatoTalks /\ articles[1].summary = Text1

\* whether the step of store_items that examines an item let it through the
\* validation and the relevance test (to the lookup of its url)
PassedFilter(p) == pass'[p].pc = "commit" \/ pass'[p].last = "exists"

\* the title and url are non-empty (the title once trimmed) and a keyword occurs
\* in the lowercased title, a space and the url
NamesKeyword(it) ==
  LET text == lower(strip(it.title) \o <<" ">> \o it.url)
  IN  \E n \in DOMAIN KEYWORDS : contains(text, KEYWORDS[n])

NonEmpty(it) == strip(it.title) # <<>> /\ it.url # <<>>

\* C7, as amended: an item passes the filter of store_items iff its trimmed
\* title and its url are both non-empty and either the lowercased trimmed title,
\* a space and the url contain a configured keyword, or the lowercased source
\* name contains "al jazeera"; only an item that passed is ever inserted.
C7_Step ==
  LET passes == /\ NonEmpty(item_at("scheduler"))
                /\ \/ NamesKeyword(item_at("scheduler"))
                   \/ contains(lower(name_at("scheduler")), EXEMPT_NAME)
  IN  /\ pass["scheduler"].pc = "store" => (PassedFilter("scheduler") <=> passes)
      /\ articles' # articles => (pass["scheduler"].pc = "commit" /\ passes)

C7_FilterBySubstring == [][C7_Step]_vars

\* an article no keyword matches is stored for a source whose name only
\* contains the exempt name
C7_Witness ==
  \E i \in DOMAIN articles :
    articles[i].source = AlJazeeraEnglish /\ articles[i].title = Bakery

\* C7, as stated: ... or the source name is the exempt name itself (compared
\* without regard to case).
C7_Original ==
  [][pass["scheduler"].pc = "store" =>
       (PassedFilter("scheduler") <=>
          /\ NonEmpty(item_at("scheduler"))
          /\ \/ NamesKeyword(item_at("scheduler"))
             \/ lower(name_at("scheduler")) = EXEMPT_NAME)]_vars

\* C8, as stated: an item whose title or url is empty once trimmed is never
\* inserted; an item that is valid and relevant is looked up by its exact url
\* and, when the column holds no such url, inserted with source, title, url and
\* summary cut to the widths of their columns.
C8_Blank(it) == strip(it.title) = <<>> \/ strip(it.url) = <<>>

C8_Step ==
  LET st == pass["scheduler"]
  IN  /\ (st.pc \in {"store", "commit"} /\ C8_Blank(item_at("scheduler"))) =>
           articles' = articles
      /\ (st.pc = "store" /\ ~C8_Blank(item_at("scheduler"))
            /\ is_relevant(item_at("scheduler"), name_at("scheduler"))) =>
           (pass'["scheduler"].pc = "commit"
              <=> ~\E i \in DOMAIN articles : articles[i].url = item_at("scheduler").url)
      /\ (st.pc = "commit" /\ ~stored(articles, item_at("scheduler").url)) =>
           /\ Len(articles') = Len(articles) + 1
           /\ LET row == articles'[Len(articles')]
                  it == item_at("scheduler")
              IN  /\ row.source = slice(name_at("scheduler"), SOURCE_MAX)
                  /\ row.title = slice(strip(it.title), TITLE_MAX)
                  /\ row.url = slice(it.url, URL_MAX)
                  /\ row.summary = slice(it.summary, SUMMARY_MAX)

C8_TrimAndTruncate == [][C8_Step]_vars

\* C10: a listing is the window filtered.  There is a set of
\* min(limit, number of rows) rows of the table that no row outside it sorts
\* before (published descending, no published last, then fetched_at descending);
\* the listing holds exactly the rows of that set, or with a query exactly those
\* of them whose lowercased title or summary contains the query, each once, and
\* in that order.  So a row outside the window is not listed even if it matches.
C10_InWindow(W) ==
  /\ Cardinality(W) = (IF Len(articles) <= listing.limit THEN Len(articles) ELSE listing.limit)
  /\ \A i \in W, j \in DOMAIN articles \ W : ~sorts_before(articles[j], articles[i])
  /\ LET want == {i \in W : listing.q = <<>>
                             \/ contains(lower(articles[i].title), listing.q)
                             \/ contains(lower(articles[i].summary), listing.q)}
     IN  /\ Len(listing.rows) = Cardinality(want)
         /\ {listing.rows[k].id : k \in DOMAIN listing.rows} = want
         /\ \A k \in DOMAIN listing.rows : listing.rows[k] = articles[listing.rows[k].id]

C10_WindowThenFilter ==
  listing.handler # "none" =>
    /\ \E W \in SUBSET DOMAIN articles : C10_InWindow(W)
    /\ \A k, l \in DOMAIN listing.rows :
         k < l => ~sorts_before(listing.rows[l], listing.rows[k])
    /\ listing.handler = "api_articles" => listing.q = <<>>

\* a search of a table of two rows with limit 1 lists nothing: the row of the
\* window does not match, and the other row, which matches, has no published
\* and lies outside the window
C10_Witness ==
  /\ listing.handler = "index" /\ listing.limit = 1 /\ listing.q # <<>>
  /\ Len(articles) = 2
  /\ listing.rows = <<>>
  /\ \E i \in DOMAIN articles :
       /\ articles[i].published = <<>>
       /\ contains(lower(articles[i].summary), listing.q)
       /\ \A k \in DOMAIN listing.rows : listing.rows[k].id # i

====
